---- MODULE Spec2Model ----
(***************************************************************************)
(* TransactionCallbackInvoker (services/surfaceflinger): the completion-   *)
(* callback dispatcher.  Every public method runs under mMutex, so each    *)
(* method is one atomic action of the model.                               *)
(***************************************************************************)
EXTENDS Integers, Sequences, FiniteSets, TLC

(* ----------------------------- bounds ---------------------------------- *)
\* number of transactions ever appended to the ledger
MaxTx == 2
\* largest pending count of one (listener, callbackIds) pair
MaxPending == 1
\* largest number of handles in one finalize batch
MaxBatch == 2

(* ----------------------------- values ---------------------------------- *)
Listeners == {"L1", "L2"}

ON_COMPLETE == "ON_COMPLETE"
ON_COMMIT == "ON_COMMIT"

\* the callback id vectors the clients use: non-empty, with distinct
\* leading ids, one commit-only and one on-complete
CommitIds == <<[id |-> 1, type |-> ON_COMMIT]>>
CompleteIds == <<[id |-> 2, type |-> ON_COMPLETE]>>
CallbackIdSets == {CommitIds, CompleteIds}

\* L1 is the listener under study: its client uses both vectors and its
\* process may go away.  L2 is the bystander
ClientIds == [l \in Listeners |-> IF l = "L1" THEN CallbackIdSets ELSE {CompleteIds}]
Mortal == {"L1"}

NO_ERROR == "NO_ERROR"
BAD_VALUE == "BAD_VALUE"
DEAD_OBJECT == "DEAD_OBJECT"

\* a null sp<Fence>
NoFence == "NoFence"
Fences == {"F1"}

\* TransactionStats::latchTime before any handle was folded in
NotLatched == -1
LatchTimes == {NotLatched, 1}

\* a CallbackHandle.  Its surface control and the SurfaceStats built from it
\* are payload that no decision of the invoker reads; they are left out
Handles ==
    {h \in [listener : Listeners, callbackIds : CallbackIdSets, latchTime : LatchTimes] :
        h.callbackIds \in ClientIds[h.listener]}

RECURSIVE SeqsUpTo(_, _)
SeqsUpTo(S, n) ==
    IF n = 0 THEN {<<>>}
    ELSE LET shorter == SeqsUpTo(S, n - 1)
         IN  shorter \cup {Append(s, x) : s \in {t \in shorter : Len(t) = n - 1}, x \in S}

Batches == SeqsUpTo(Handles, MaxBatch)

(* ----------------------------- state ----------------------------------- *)
VARIABLES
    mRegisteringTransactions, \* set of ListenerCallbacks between start and end
    mCompletedTransactions,   \* listener -> deque of TransactionStats (map: partial)
    mPendingTransactions,     \* listener -> (callbackIds -> count > 0) (maps: partial)
    mPresentFence,            \* the fence of this cycle, or NoFence
    alive,                    \* listener -> isBinderAlive()
    deathLinks,               \* listener -> number of death subscriptions held
    nextSeq,                  \* history: listener -> number of its transactions appended
    delivered,                \* history: listener -> seq numbers sent to it, in order
    lastCall,                 \* history: what the last call returned or sent
    warned,                   \* history: the last call logged an ALOGW of finalizeCallbackHandle
    dispatched,               \* history: nextSeq when the last two sendCallbacks returned
    mMutex,                   \* the thread that holds mMutex, or NoThread
    pc,                       \* thread -> where it is in the method it runs
    compared                  \* the arguments and the result of a compareCallbackIds call

vars == <<mRegisteringTransactions, mCompletedTransactions, mPendingTransactions,
          mPresentFence, alive, deathLinks, nextSeq, delivered, lastCall,
          warned, dispatched, mMutex, pc, compared>>

\* Spec takes every method as one step under mMutex and keeps no more
\* history than its properties read: it leaves these variables alone.
\* SpecHistory, SpecMutex and SpecCompare below each drive some of them
aside == <<warned, dispatched, mMutex, pc, compared>>

Threads == {"t1", "t2"}
NoThread == "NoThread"
Idle == [method |-> "none", at |-> "idle"]
NotCompared == [c1 |-> <<>>, c2 |-> <<>>, outcome |-> "none", ret |-> 0]
NeverDispatched ==
    [before |-> [l \in Listeners |-> 0], last |-> [l \in Listeners |-> 0]]

\* std::unordered_map: the empty map
EmptyMap == [x \in {} |-> 0]

MapPut(m, k, v) == [x \in DOMAIN m \cup {k} |-> IF x = k THEN v ELSE m[x]]
MapErase(m, k) == [x \in DOMAIN m \ {k} |-> m[x]]

\* history: the call op, which is not sendCallbacks, returned ret (NoStatus:
\* void).  HandleCall stands for the calls that take callback handles:
\* registerPendingCallbackHandle, finalizePendingCallbackHandles,
\* finalizeOnCommitCallbackHandles and registerUnpresentedCallbackHandle
NoStatus == "void"
HandleCall == "handle"
returned(op, ret) ==
    [op |-> op, ret |-> ret, fence |-> NoFence, sent |-> <<>>, dropped |-> <<>>,
     unlinked |-> <<>>]

ListenerCallbacks(listener, callbackIds) ==
    [listener |-> listener, callbackIds |-> callbackIds]

\* TransactionStats(callbackIds): seq and stale are history fields; seq
\* numbers the registrations of one listener, stale says that the
\* transaction became latched with no pending count after mPresentFence was
\* last set
TransactionStats(callbackIds, seq) ==
    [callbackIds |-> callbackIds, latchTime |-> NotLatched, presentFence |-> NoFence,
     seq |-> seq, stale |-> FALSE]

Init ==
    /\ mRegisteringTransactions = {}
    /\ mCompletedTransactions = EmptyMap
    /\ mPendingTransactions = EmptyMap
    /\ mPresentFence = NoFence
    /\ alive = [l \in Listeners |-> TRUE]
    /\ deathLinks = [l \in Listeners |-> 0]
    /\ nextSeq = [l \in Listeners |-> 0]
    /\ delivered = [l \in Listeners |-> <<>>]
    /\ lastCall = returned("none", NoStatus)
    /\ warned = FALSE
    /\ dispatched = NeverDispatched
    /\ mMutex = NoThread
    /\ pc = [t \in Threads |-> Idle]
    /\ compared = NotCompared

RECURSIVE Sum(_, _)
Sum(f, S) ==
    IF S = {} THEN 0
    ELSE LET x == CHOOSE y \in S : TRUE IN f[x] + Sum(f, S \ {x})

\* transactions appended so far, over all listeners
Appended == Sum(nextSeq, Listeners)

(* ------------------------ pure helpers --------------------------------- *)
\* c2 is non-empty whenever c1 is: the callers pass client vectors, which
\* are never empty, and their ids are small enough for the difference to
\* fit the int result
compareCallbackIds(c1, c2) ==
    IF c1 = <<>>
    THEN (IF c2 # <<>> THEN 1 ELSE 0)
    ELSE c1[1].id - c2[1].id

containsOnCommitCallbacks(callbacks) ==
    callbacks # <<>> /\ callbacks[1].type = ON_COMMIT

\* mutant: the registration set is not consulted
isRegisteringTransactionNever(registering, listener, callbackIds) == FALSE

isRegisteringTransaction(registering, listener, callbackIds) ==
    ListenerCallbacks(listener, callbackIds) \in registering

isPending(pending, listener, callbackIds) ==
    listener \in DOMAIN pending /\ callbackIds \in DOMAIN pending[listener]

\* IBinder::linkToDeath: the subscription cannot be established once the
\* remote is gone
linkToDeath(listener) ==
    IF alive[listener] THEN NO_ERROR ELSE DEAD_OBJECT

\* history: the stale fields after a call that took the ledger and the
\* pending counts from (oldC, oldP) to (newC, newP) without removing
\* a transaction
isReady(pending, listener, stats) ==
    stats.latchTime >= 0 /\ ~isPending(pending, listener, stats.callbackIds)

withStale(oldC, oldP, newC, newP) ==
    [l \in DOMAIN newC |->
        [i \in 1..Len(newC[l]) |->
            LET stats == newC[l][i]
                wasReady == /\ l \in DOMAIN oldC
                            /\ i <= Len(oldC[l])
                            /\ isReady(oldP, l, oldC[l][i])
            IN  [stats EXCEPT !.stale =
                    /\ mPresentFence # NoFence
                    /\ isReady(newP, l, stats)
                    /\ (wasReady => @)]]]

clearStale(completed) ==
    [l \in DOMAIN completed |->
        [i \in 1..Len(completed[l]) |-> [completed[l][i] EXCEPT !.stale = FALSE]]]

(* ------------------------ registration --------------------------------- *)
\* mutant: the transaction is appended whether or not the pair was inserted
startRegistrationAlwaysAppends(listener, callbackIds) ==
    LET lc == ListenerCallbacks(listener, callbackIds)
        known == listener \in DOMAIN mCompletedTransactions
        deque == IF known THEN mCompletedTransactions[listener] ELSE <<>>
        err == linkToDeath(listener)
    IN  /\ mRegisteringTransactions' = mRegisteringTransactions \cup {lc}
        /\ IF ~known /\ err # NO_ERROR
           THEN /\ lastCall' = returned("startRegistration", err)
                /\ UNCHANGED <<mCompletedTransactions, deathLinks, nextSeq>>
           ELSE /\ Appended < MaxTx
                /\ deathLinks' = IF known THEN deathLinks
                                 ELSE [deathLinks EXCEPT ![listener] = @ + 1]
                /\ mCompletedTransactions' =
                       MapPut(mCompletedTransactions, listener,
                              Append(deque, TransactionStats(callbackIds,
                                                             nextSeq[listener] + 1)))
                /\ nextSeq' = [nextSeq EXCEPT ![listener] = @ + 1]
                /\ lastCall' = returned("startRegistration", NO_ERROR)
        /\ UNCHANGED <<mPendingTransactions, mPresentFence, alive, delivered>>

startRegistration(listener, callbackIds) ==
    LET lc == ListenerCallbacks(listener, callbackIds)
        inserted == lc \notin mRegisteringTransactions
        known == listener \in DOMAIN mCompletedTransactions
        deque == IF known THEN mCompletedTransactions[listener] ELSE <<>>
        err == linkToDeath(listener)
    IN  /\ mRegisteringTransactions' = mRegisteringTransactions \cup {lc}
        /\ IF inserted
           THEN IF ~known /\ err # NO_ERROR
                THEN /\ lastCall' = returned("startRegistration", err)
                     /\ UNCHANGED <<mCompletedTransactions, deathLinks, nextSeq>>
                ELSE /\ Appended < MaxTx
                     /\ deathLinks' = IF known THEN deathLinks
                                      ELSE [deathLinks EXCEPT ![listener] = @ + 1]
                     /\ mCompletedTransactions' =
                            MapPut(mCompletedTransactions, listener,
                                   Append(deque, TransactionStats(callbackIds,
                                                                  nextSeq[listener] + 1)))
                     /\ nextSeq' = [nextSeq EXCEPT ![listener] = @ + 1]
                     /\ lastCall' = returned("startRegistration", NO_ERROR)
           ELSE /\ lastCall' = returned("startRegistration", NO_ERROR)
                /\ UNCHANGED <<mCompletedTransactions, deathLinks, nextSeq>>
        /\ UNCHANGED <<mPendingTransactions, mPresentFence, alive, delivered>>

\* mutant: ending a registration that does not exist is not reported
endRegistrationSwallows(listener, callbackIds) ==
    /\ mRegisteringTransactions' =
           mRegisteringTransactions \ {ListenerCallbacks(listener, callbackIds)}
    /\ lastCall' = returned("endRegistration", NO_ERROR)
    /\ UNCHANGED <<mCompletedTransactions, mPendingTransactions, mPresentFence,
                   alive, deathLinks, nextSeq, delivered>>

endRegistration(listener, callbackIds) ==
    LET lc == ListenerCallbacks(listener, callbackIds)
    IN  /\ IF lc \notin mRegisteringTransactions
           THEN /\ lastCall' = returned("endRegistration", BAD_VALUE)
                /\ UNCHANGED mRegisteringTransactions
           ELSE /\ mRegisteringTransactions' = mRegisteringTransactions \ {lc}
                /\ lastCall' = returned("endRegistration", NO_ERROR)
        /\ UNCHANGED <<mCompletedTransactions, mPendingTransactions, mPresentFence,
                       alive, deathLinks, nextSeq, delivered>>

(* ------------------------ handles -------------------------------------- *)
\* mCompletedTransactions[listener] default-constructs the deque of a
\* listener the map does not hold yet
completedAt(completed, listener) ==
    IF listener \in DOMAIN completed THEN completed ELSE MapPut(completed, listener, <<>>)

\* mutant: the deque is searched front to back
findTransactionStatsFrontToBack(completed, listener, callbackIds) ==
    LET touched == completedAt(completed, listener)
        deque == touched[listener]
        matches == {i \in 1..Len(deque) :
                        compareCallbackIds(deque[i].callbackIds, callbackIds) = 0}
    IN  [completed |-> touched,
         index |-> IF matches = {} THEN 0
                   ELSE CHOOSE i \in matches : \A j \in matches : i <= j]

\* index 0 stands for BAD_VALUE; the deque is searched back to front
findTransactionStats(completed, listener, callbackIds) ==
    LET touched == completedAt(completed, listener)
        deque == touched[listener]
        matches == {i \in 1..Len(deque) :
                        compareCallbackIds(deque[i].callbackIds, callbackIds) = 0}
    IN  [completed |-> touched,
         index |-> IF matches = {} THEN 0
                   ELSE CHOOSE i \in matches : \A j \in matches : j <= i]

addCallbackHandle(completed, handle) ==
    LET found == findTransactionStats(completed, handle.listener, handle.callbackIds)
        stats == found.completed[handle.listener][found.index]
        folded == [stats EXCEPT !.latchTime = handle.latchTime]
    IN  IF found.index = 0
        THEN [completed |-> found.completed, err |-> BAD_VALUE]
        ELSE [completed |-> [found.completed EXCEPT ![handle.listener][found.index] = folded],
              err |-> NO_ERROR]

\* mutant: the count is decremented through operator[], which creates the
\* entry of a pair that has none
decrementPendingUnderflows(pending, handle) ==
    LET pendingCallbacks == IF handle.listener \in DOMAIN pending
                            THEN pending[handle.listener] ELSE EmptyMap
        count == IF handle.callbackIds \in DOMAIN pendingCallbacks
                 THEN pendingCallbacks[handle.callbackIds] ELSE 0
        after == IF count - 1 = 0
                 THEN MapErase(pendingCallbacks, handle.callbackIds)
                 ELSE MapPut(pendingCallbacks, handle.callbackIds, count - 1)
    IN  IF DOMAIN after = {}
        THEN MapErase(pending, handle.listener)
        ELSE MapPut(pending, handle.listener, after)

\* the pending counts after --pendingCount for the handle's pair, with the
\* maps that became empty erased
decrementPending(pending, handle) ==
    IF handle.listener \in DOMAIN pending
    THEN LET pendingCallbacks == pending[handle.listener]
             after == IF handle.callbackIds \in DOMAIN pendingCallbacks
                      THEN IF pendingCallbacks[handle.callbackIds] - 1 = 0
                           THEN MapErase(pendingCallbacks, handle.callbackIds)
                           ELSE [pendingCallbacks EXCEPT ![handle.callbackIds] = @ - 1]
                      ELSE pendingCallbacks
         IN  IF DOMAIN after = {}
             THEN MapErase(pending, handle.listener)
             ELSE [pending EXCEPT ![handle.listener] = after]
    ELSE pending

\* st is [completed, pending]
finalizeCallbackHandle(st, handle) ==
    LET added == addCallbackHandle(st.completed, handle)
    IN  [completed |-> added.completed,
         pending |-> decrementPending(st.pending, handle),
         err |-> added.err]

\* the loop of finalizePendingCallbackHandles (onCommit = FALSE) and of
\* finalizeOnCommitCallbackHandles (onCommit = TRUE) from handle i on: it
\* returns at the first handle that fails
RECURSIVE finalizeHandles(_, _, _, _, _)
finalizeHandles(st, handles, i, onCommit, remaining) ==
    IF i > Len(handles)
    THEN [completed |-> st.completed, pending |-> st.pending, err |-> NO_ERROR,
          remaining |-> remaining, failedAt |-> 0]
    ELSE IF onCommit /\ ~containsOnCommitCallbacks(handles[i].callbackIds)
    THEN finalizeHandles(st, handles, i + 1, onCommit, Append(remaining, handles[i]))
    ELSE LET done == finalizeCallbackHandle(st, handles[i])
         IN  IF done.err # NO_ERROR
             THEN [completed |-> done.completed, pending |-> done.pending,
                   err |-> done.err, remaining |-> remaining, failedAt |-> i]
             ELSE finalizeHandles([completed |-> done.completed, pending |-> done.pending],
                                  handles, i + 1, onCommit, remaining)

registerPendingCallbackHandle(handle) ==
    LET found == findTransactionStats(mCompletedTransactions, handle.listener,
                                      handle.callbackIds)
        l == handle.listener
        ids == handle.callbackIds
        counts == IF l \in DOMAIN mPendingTransactions
                  THEN mPendingTransactions[l] ELSE EmptyMap
        count == IF ids \in DOMAIN counts THEN counts[ids] ELSE 0
        pending == MapPut(mPendingTransactions, l, MapPut(counts, ids, count + 1))
    IN  /\ IF found.index = 0
           THEN /\ mCompletedTransactions' = found.completed
                /\ lastCall' = returned(HandleCall, BAD_VALUE)
                /\ UNCHANGED mPendingTransactions
           ELSE /\ count < MaxPending
                /\ mPendingTransactions' = pending
                /\ mCompletedTransactions' =
                       withStale(mCompletedTransactions, mPendingTransactions,
                                 found.completed, pending)
                /\ lastCall' = returned(HandleCall, NO_ERROR)
        /\ UNCHANGED <<mRegisteringTransactions, mPresentFence, alive, deathLinks,
                       nextSeq, delivered>>

finalizeBatch(handles, onCommit) ==
    LET done == finalizeHandles([completed |-> mCompletedTransactions,
                                 pending |-> mPendingTransactions],
                                handles, 1, onCommit, <<>>)
    IN  /\ mCompletedTransactions' =
               withStale(mCompletedTransactions, mPendingTransactions,
                         done.completed, done.pending)
        /\ mPendingTransactions' = done.pending
        /\ lastCall' = returned(HandleCall, done.err)
        /\ UNCHANGED <<mRegisteringTransactions, mPresentFence, alive, deathLinks,
                       nextSeq, delivered>>

finalizePendingCallbackHandles(handles) ==
    finalizeBatch(handles, FALSE)

finalizeOnCommitCallbackHandles(handles) ==
    finalizeBatch(handles, TRUE)

registerUnpresentedCallbackHandle(handle) ==
    LET added == addCallbackHandle(mCompletedTransactions, handle)
    IN  /\ mCompletedTransactions' =
               withStale(mCompletedTransactions, mPendingTransactions,
                         added.completed, mPendingTransactions)
        /\ lastCall' = returned(HandleCall, added.err)
        /\ UNCHANGED <<mRegisteringTransactions, mPendingTransactions, mPresentFence,
                       alive, deathLinks, nextSeq, delivered>>

(* ------------------------ dispatch ------------------------------------- *)
addPresentFence(presentFence) ==
    /\ mPresentFence' = presentFence
    /\ mCompletedTransactions' = clearStale(mCompletedTransactions)
    /\ lastCall' = returned("addPresentFence", NoStatus)
    /\ UNCHANGED <<mRegisteringTransactions, mPendingTransactions, alive, deathLinks,
                   nextSeq, delivered>>

\* mutant: no transaction waits for the present fence
needsPresentFenceNever(transactionStats) == FALSE

\* mutant: a latched commit-only transaction waits for the present fence too
needsPresentFenceWhenLatched(transactionStats) ==
    transactionStats.latchTime >= 0

\* "if the transaction has been latched" and is not commit-only
needsPresentFence(transactionStats) ==
    /\ transactionStats.latchTime >= 0
    /\ ~containsOnCommitCallbacks(transactionStats.callbackIds)

\* mutant: the walk goes on (continue) behind a transaction that is not
\* ready instead of stopping there (break)
RECURSIVE collectTransactionsSkipping(_, _, _, _, _, _)
collectTransactionsSkipping(listener, deque, batch, registering, pending, fence) ==
    IF deque = <<>>
    THEN [batch |-> batch, deque |-> deque]
    ELSE LET transactionStats == Head(deque)
             blocked ==
                 \/ ListenerCallbacks(listener, transactionStats.callbackIds) \in registering
                 \/ /\ listener \in DOMAIN pending
                    /\ transactionStats.callbackIds \in DOMAIN pending[listener]
                 \/ /\ transactionStats.latchTime >= 0
                    /\ ~containsOnCommitCallbacks(transactionStats.callbackIds)
                    /\ fence = NoFence
             rest == collectTransactionsSkipping(
                         listener, Tail(deque),
                         IF blocked THEN batch ELSE Append(batch, transactionStats),
                         registering, pending, fence)
         IN  IF blocked
             THEN [batch |-> rest.batch, deque |-> <<transactionStats>> \o rest.deque]
             ELSE rest

\* mutant: a transaction moved to listenerStats is not erased from the deque
\* unless the whole deque was moved
RECURSIVE collectTransactionsKeeping(_, _, _, _, _, _)
collectTransactionsKeeping(listener, deque, batch, registering, pending, fence) ==
    IF deque = <<>>
    THEN [batch |-> batch, deque |-> deque]
    ELSE LET transactionStats == Head(deque)
             blocked ==
                 \/ ListenerCallbacks(listener, transactionStats.callbackIds) \in registering
                 \/ /\ listener \in DOMAIN pending
                    /\ transactionStats.callbackIds \in DOMAIN pending[listener]
                 \/ /\ transactionStats.latchTime >= 0
                    /\ ~containsOnCommitCallbacks(transactionStats.callbackIds)
                    /\ fence = NoFence
             rest == collectTransactionsKeeping(listener, Tail(deque),
                                                Append(batch, transactionStats),
                                                registering, pending, fence)
         IN  IF blocked
             THEN [batch |-> batch, deque |-> deque]
             ELSE [batch |-> rest.batch,
                   deque |-> IF rest.deque = <<>> THEN <<>>
                             ELSE <<transactionStats>> \o rest.deque]

\* mutant: every transaction moved to listenerStats gets the present fence
RECURSIVE collectTransactionsFencingAll(_, _, _, _, _, _)
collectTransactionsFencingAll(listener, deque, batch, registering, pending, fence) ==
    IF deque = <<>>
    THEN [batch |-> batch, deque |-> deque]
    ELSE LET transactionStats == Head(deque)
             blocked ==
                 \/ ListenerCallbacks(listener, transactionStats.callbackIds) \in registering
                 \/ /\ listener \in DOMAIN pending
                    /\ transactionStats.callbackIds \in DOMAIN pending[listener]
                 \/ /\ transactionStats.latchTime >= 0
                    /\ ~containsOnCommitCallbacks(transactionStats.callbackIds)
                    /\ fence = NoFence
         IN  IF blocked
             THEN [batch |-> batch, deque |-> deque]
             ELSE collectTransactionsFencingAll(
                      listener, Tail(deque),
                      Append(batch, [transactionStats EXCEPT !.presentFence = fence]),
                      registering, pending, fence)

\* the inner loop of sendCallbacks over one listener's deque: the
\* transactions moved to listenerStats and the deque that is left
RECURSIVE collectTransactions(_, _, _, _, _, _)
collectTransactions(listener, deque, batch, registering, pending, fence) ==
    IF deque = <<>>
    THEN [batch |-> batch, deque |-> deque]
    ELSE LET transactionStats == Head(deque)
         IN  IF isRegisteringTransaction(registering, listener, transactionStats.callbackIds)
             THEN [batch |-> batch, deque |-> deque]
             ELSE IF isPending(pending, listener, transactionStats.callbackIds)
             THEN [batch |-> batch, deque |-> deque]
             ELSE IF needsPresentFence(transactionStats) /\ fence = NoFence
             THEN [batch |-> batch, deque |-> deque]
             ELSE collectTransactions(
                      listener, Tail(deque),
                      Append(batch,
                             IF needsPresentFence(transactionStats)
                             THEN [transactionStats EXCEPT !.presentFence = fence]
                             ELSE transactionStats),
                      registering, pending, fence)

\* mutant: the outer loop ends (break) at a listener that gets nothing
\* instead of going on to the next one
RECURSIVE sendLoopStopping(_, _, _)
sendLoopStopping(order, i, acc) ==
    IF i > Len(order)
    THEN acc
    ELSE LET listener == order[i]
             walked == collectTransactions(listener, acc.completed[listener], <<>>,
                                           mRegisteringTransactions, mPendingTransactions,
                                           mPresentFence)
             listenerStats == [listener |-> listener, transactionStats |-> walked.batch]
         IN  IF walked.batch # <<>>
             THEN IF alive[listener]
                  THEN IF walked.deque = <<>>
                       THEN sendLoopStopping(order, i + 1,
                                [acc EXCEPT !.completed = MapErase(@, listener),
                                            !.sent = Append(@, listenerStats),
                                            !.unlinked = Append(@, listener)])
                       ELSE sendLoopStopping(order, i + 1,
                                [acc EXCEPT !.completed[listener] = walked.deque,
                                            !.sent = Append(@, listenerStats)])
                  ELSE sendLoopStopping(order, i + 1,
                           [acc EXCEPT !.completed = MapErase(@, listener),
                                       !.dropped = Append(@, listenerStats)])
             ELSE acc

\* the outer loop of sendCallbacks over the listeners in the order the map
\* iterates them; acc is [completed, sent, dropped, unlinked]
RECURSIVE sendLoop(_, _, _)
sendLoop(order, i, acc) ==
    IF i > Len(order)
    THEN acc
    ELSE LET listener == order[i]
             walked == collectTransactions(listener, acc.completed[listener], <<>>,
                                           mRegisteringTransactions, mPendingTransactions,
                                           mPresentFence)
             listenerStats == [listener |-> listener, transactionStats |-> walked.batch]
         IN  IF walked.batch # <<>>
             THEN IF alive[listener]
                  THEN IF walked.deque = <<>>
                       THEN sendLoop(order, i + 1,
                                [acc EXCEPT !.completed = MapErase(@, listener),
                                            !.sent = Append(@, listenerStats),
                                            !.unlinked = Append(@, listener)])
                       ELSE sendLoop(order, i + 1,
                                [acc EXCEPT !.completed[listener] = walked.deque,
                                            !.sent = Append(@, listenerStats)])
                  ELSE sendLoop(order, i + 1,
                           [acc EXCEPT !.completed = MapErase(@, listener),
                                       !.dropped = Append(@, listenerStats)])
             ELSE sendLoop(order, i + 1, acc)

\* the orders in which a map with these keys can be iterated
Orders(keys) ==
    {order \in [1..Cardinality(keys) -> keys] :
        \A i, j \in 1..Cardinality(keys) : i # j => order[i] # order[j]}

seqsOf(batch) == [i \in 1..Len(batch) |-> batch[i].seq]

RECURSIVE deliveredAfter(_, _, _)
deliveredAfter(sent, i, d) ==
    IF i > Len(sent) THEN d
    ELSE deliveredAfter(sent, i + 1,
             [d EXCEPT ![sent[i].listener] = @ \o seqsOf(sent[i].transactionStats)])

\* IBinder::unlinkToDeath of a recipient that is not linked changes nothing
RECURSIVE unlinkedAfter(_, _, _)
unlinkedAfter(unlinked, i, links) ==
    IF i > Len(unlinked) THEN links
    ELSE unlinkedAfter(unlinked, i + 1,
             [links EXCEPT ![unlinked[i]] = IF @ > 0 THEN @ - 1 ELSE 0])

\* mutant: mPresentFence is left set when the dispatch returns
sendCallbacksKeepingFence(order) ==
    LET done == sendLoop(order, 1, [completed |-> mCompletedTransactions, sent |-> <<>>,
                                    dropped |-> <<>>, unlinked |-> <<>>])
    IN  /\ mCompletedTransactions' = clearStale(done.completed)
        /\ mPresentFence' = mPresentFence
        /\ delivered' = deliveredAfter(done.sent, 1, delivered)
        /\ deathLinks' = unlinkedAfter(done.unlinked, 1, deathLinks)
        /\ lastCall' = [op |-> "sendCallbacks", ret |-> NoStatus, fence |-> mPresentFence,
                        sent |-> done.sent, dropped |-> done.dropped,
                        unlinked |-> done.unlinked]
        /\ UNCHANGED <<mRegisteringTransactions, mPendingTransactions, alive, nextSeq>>

sendCallbacks(order) ==
    LET done == sendLoop(order, 1, [completed |-> mCompletedTransactions, sent |-> <<>>,
                                    dropped |-> <<>>, unlinked |-> <<>>])
    IN  /\ mCompletedTransactions' = clearStale(done.completed)
        /\ mPresentFence' = NoFence
        /\ delivered' = deliveredAfter(done.sent, 1, delivered)
        /\ deathLinks' = unlinkedAfter(done.unlinked, 1, deathLinks)
        /\ lastCall' = [op |-> "sendCallbacks", ret |-> NoStatus, fence |-> mPresentFence,
                        sent |-> done.sent, dropped |-> done.dropped,
                        unlinked |-> done.unlinked]
        /\ UNCHANGED <<mRegisteringTransactions, mPendingTransactions, alive, nextSeq>>

\* the remote process of the listener goes away: isBinderAlive() is false
\* from now on
listenerDies(listener) ==
    /\ alive[listener]
    /\ alive' = [alive EXCEPT ![listener] = FALSE]
    /\ UNCHANGED <<mRegisteringTransactions, mCompletedTransactions, mPendingTransactions,
                   mPresentFence, deathLinks, nextSeq, delivered, lastCall>>

Next ==
    \/ \E l \in Listeners : \E ids \in ClientIds[l] :
           startRegistration(l, ids) /\ UNCHANGED aside
    \/ \E l \in Listeners : \E ids \in ClientIds[l] :
           endRegistration(l, ids) /\ UNCHANGED aside
    \/ \E h \in Handles : registerPendingCallbackHandle(h) /\ UNCHANGED aside
    \/ \E hs \in Batches : finalizePendingCallbackHandles(hs) /\ UNCHANGED aside
    \/ \E hs \in Batches : finalizeOnCommitCallbackHandles(hs) /\ UNCHANGED aside
    \/ \E h \in Handles : registerUnpresentedCallbackHandle(h) /\ UNCHANGED aside
    \/ \E f \in Fences : addPresentFence(f) /\ UNCHANGED aside
    \/ \E order \in Orders(DOMAIN mCompletedTransactions) :
           sendCallbacks(order) /\ UNCHANGED aside
    \/ \E l \in Mortal : listenerDies(l) /\ UNCHANGED aside

Spec == Init /\ [][Next]_vars

(* ======================================================================= *)
(* Properties                                                              *)
(* ======================================================================= *)
dequeOf(listener) ==
    IF listener \in DOMAIN mCompletedTransactions
    THEN mCompletedTransactions[listener] ELSE <<>>

\* the notifications sendCallbacks built: sent to a live listener, or
\* dropped because the listener was dead
sentTo(listener) ==
    {n \in 1..Len(lastCall.sent) : lastCall.sent[n].listener = listener}

\* C1: for every listener, transactions are delivered in the order they
\* were registered: the seq numbers sent to a listener only grow, inside a
\* notification and from one notification to the next, and every
\* transaction still in the listener's deque was registered after every
\* transaction already delivered to it (so nothing registered after an
\* undelivered transaction has been delivered).
C1_DeliveredInRegistrationOrder ==
    \A l \in Listeners :
        /\ \A i, j \in 1..Len(delivered[l]) : i < j => delivered[l][i] < delivered[l][j]
        /\ \A k \in 1..Len(dequeOf(l)) :
               \A i \in 1..Len(delivered[l]) : delivered[l][i] < dequeOf(l)[k].seq
        /\ \A i, j \in 1..Len(dequeOf(l)) : i < j => dequeOf(l)[i].seq < dequeOf(l)[j].seq

\* C1 witness: a dispatch ran with the fence set while the second
\* transaction of L1 was resolved and the first still had a pending
\* count; it sent nothing to L1.
C1_Witness ==
    /\ lastCall.op = "sendCallbacks"
    /\ lastCall.fence # NoFence
    /\ sentTo("L1") = {}
    /\ Len(dequeOf("L1")) = 2
    /\ isPending(mPendingTransactions, "L1", dequeOf("L1")[1].callbackIds)
    /\ dequeOf("L1")[2].latchTime >= 0
    /\ ~isPending(mPendingTransactions, "L1", dequeOf("L1")[2].callbackIds)
    /\ ~isRegisteringTransaction(mRegisteringTransactions, "L1", dequeOf("L1")[2].callbackIds)

\* C2: a transaction that sendCallbacks put into a notification is not in
\* the registration set and has no pending count (sendCallbacks changes
\* neither, so the state after the call shows what the call saw).
C2_NotSentWhileOpenOrPending ==
    lastCall.op = "sendCallbacks" =>
        \A n \in 1..Len(lastCall.sent) :
            \A i \in 1..Len(lastCall.sent[n].transactionStats) :
                LET l == lastCall.sent[n].listener
                    ids == lastCall.sent[n].transactionStats[i].callbackIds
                IN  /\ ListenerCallbacks(l, ids) \notin mRegisteringTransactions
                    /\ ~(/\ l \in DOMAIN mPendingTransactions
                         /\ ids \in DOMAIN mPendingTransactions[l]
                         /\ mPendingTransactions[l][ids] > 0)

\* C2 witness: a dispatch sent nothing to L1 although its front
\* transaction is commit-only and has no pending count: its registration
\* is still open.
C2_Witness ==
    /\ lastCall.op = "sendCallbacks"
    /\ sentTo("L1") = {}
    /\ dequeOf("L1") # <<>>
    /\ containsOnCommitCallbacks(dequeOf("L1")[1].callbackIds)
    /\ ListenerCallbacks("L1", dequeOf("L1")[1].callbackIds) \in mRegisteringTransactions
    /\ "L1" \notin DOMAIN mPendingTransactions

\* [listener, stats] of every transaction sendCallbacks sent
sentStats ==
    UNION { {[listener |-> lastCall.sent[n].listener,
              stats |-> lastCall.sent[n].transactionStats[i]] :
                 i \in 1..Len(lastCall.sent[n].transactionStats)} :
            n \in 1..Len(lastCall.sent) }

\* C3 as stated: a transaction that is not commit-only and was latched is
\* delivered only if the presentation signal was set after the moment it
\* became latched with a pending count of zero (stale is false), so a
\* signal set before that moment does not make it deliverable.
C3_SignalSetAfterReady ==
    lastCall.op = "sendCallbacks" =>
        \A t \in sentStats :
            (~containsOnCommitCallbacks(t.stats.callbackIds) /\ t.stats.latchTime >= 0)
                => (lastCall.fence # NoFence /\ ~t.stats.stale)

\* C3 as amended: a latched transaction that is not commit-only is
\* delivered only by a dispatch that found the presentation signal set;
\* the signal may have been set before the transaction became ready.
C3_SignalSetAtDispatch ==
    lastCall.op = "sendCallbacks" =>
        \A t \in sentStats :
            (~containsOnCommitCallbacks(t.stats.callbackIds) /\ t.stats.latchTime >= 0)
                => lastCall.fence # NoFence

\* C3 witness: a dispatch delivered a latched transaction that is not
\* commit-only on a signal that was set before the transaction became ready.
C3_Witness ==
    /\ lastCall.op = "sendCallbacks"
    /\ lastCall.fence # NoFence
    /\ \E t \in sentStats :
           /\ ~containsOnCommitCallbacks(t.stats.callbackIds)
           /\ t.stats.latchTime >= 0
           /\ t.stats.stale

\* what the dispatch loop asks of one transaction, given the fence
Deliverable(listener, stats, fence) ==
    /\ ListenerCallbacks(listener, stats.callbackIds) \notin mRegisteringTransactions
    /\ ~(/\ listener \in DOMAIN mPendingTransactions
         /\ stats.callbackIds \in DOMAIN mPendingTransactions[listener])
    /\ \/ containsOnCommitCallbacks(stats.callbackIds)
       \/ stats.latchTime < 0
       \/ fence # NoFence

\* C4: when sendCallbacks runs with the presentation signal unset, every
\* latched commit-only transaction of a live listener whose registration
\* is closed, whose pending count is zero and whose predecessors in the
\* deque are all deliverable is in the notification sent to that listener.
C4_CommitOnlyNeedsNoSignal ==
    [][\A order \in Orders(DOMAIN mCompletedTransactions) :
          (/\ lastCall'.op = "sendCallbacks"
           /\ mPresentFence = NoFence
           /\ sendCallbacks(order)) =>
              \A l \in DOMAIN mCompletedTransactions :
                  \A k \in 1..Len(mCompletedTransactions[l]) :
                      LET stats == mCompletedTransactions[l][k]
                      IN  (/\ alive[l]
                           /\ containsOnCommitCallbacks(stats.callbackIds)
                           /\ stats.latchTime >= 0
                           /\ \A j \in 1..k :
                                  Deliverable(l, mCompletedTransactions[l][j], NoFence))
                          => \E n \in 1..Len(lastCall'.sent) :
                                 /\ lastCall'.sent[n].listener = l
                                 /\ \E i \in 1..Len(lastCall'.sent[n].transactionStats) :
                                        lastCall'.sent[n].transactionStats[i].seq = stats.seq
      ]_vars

\* C4 witness: a dispatch that ran with the signal unset delivered a
\* latched commit-only transaction.
C4_Witness ==
    /\ lastCall.op = "sendCallbacks"
    /\ lastCall.fence = NoFence
    /\ \E t \in sentStats :
           /\ containsOnCommitCallbacks(t.stats.callbackIds)
           /\ t.stats.latchTime >= 0

\* C5: a ledger entry is delivered at most once: no seq number is sent
\* twice to a listener, a delivered entry is no longer in the deque, and
\* one sendCallbacks sends at most one notification to a listener.
C5_DeliveredAtMostOnce ==
    /\ \A l \in Listeners :
           /\ \A i, j \in 1..Len(delivered[l]) :
                  i # j => delivered[l][i] # delivered[l][j]
           /\ \A k \in 1..Len(dequeOf(l)) :
                  \A i \in 1..Len(delivered[l]) : delivered[l][i] # dequeOf(l)[k].seq
    /\ \A n, m \in 1..Len(lastCall.sent) :
           n # m => lastCall.sent[n].listener # lastCall.sent[m].listener

\* C5 witness: sendCallbacks ran again after a transaction of L1 was
\* delivered, with a later transaction of L1 still in the deque, and sent
\* nothing to L1.
C5_Witness ==
    /\ lastCall.op = "sendCallbacks"
    /\ delivered["L1"] # <<>>
    /\ dequeOf("L1") # <<>>
    /\ sentTo("L1") = {}

\* C6: once a listener is dead, sendCallbacks sends it nothing and leaves
\* none of its transactions in the ledger.
C6_DeadListenerPurgedByDispatch ==
    [][lastCall'.op = "sendCallbacks" =>
          \A order \in Orders(DOMAIN mCompletedTransactions) :
              sendCallbacks(order) =>
                  \A l \in Listeners :
                      ~alive[l] =>
                          /\ \A n \in 1..Len(lastCall'.sent) : lastCall'.sent[n].listener # l
                          /\ \/ l \notin DOMAIN mCompletedTransactions'
                             \/ mCompletedTransactions'[l] = <<>>
      ]_vars

\* the state other than history
program ==
    <<mRegisteringTransactions, mCompletedTransactions, mPendingTransactions,
      mPresentFence, alive, deathLinks>>

\* C7: startRegistration of a pair that is in the registration set returns
\* NO_ERROR and changes nothing: no second ledger entry, no second
\* linkToDeath.
C7_StartIdempotentWhileOpen ==
    [][lastCall'.op = "startRegistration" =>
          \A l \in Listeners : \A ids \in ClientIds[l] :
              (/\ ListenerCallbacks(l, ids) \in mRegisteringTransactions
               /\ startRegistration(l, ids))
                  => /\ lastCall'.ret = NO_ERROR
                     /\ UNCHANGED <<program, nextSeq, delivered>>
      ]_vars

\* C7 witness: startRegistration of (L1, commit ids) returned NO_ERROR in a
\* state where that pair is the only open one and its transaction, the only
\* one of L1, is already latched: the call found the pair registered.
C7_Witness ==
    /\ lastCall.op = "startRegistration"
    /\ lastCall.ret = NO_ERROR
    /\ mRegisteringTransactions = {ListenerCallbacks("L1", CommitIds)}
    /\ Len(dequeOf("L1")) = 1
    /\ dequeOf("L1")[1].callbackIds = CommitIds
    /\ dequeOf("L1")[1].latchTime >= 0
    /\ deathLinks["L1"] = 1

\* C8: endRegistration returns BAD_VALUE exactly when the pair is not in
\* the registration set, and then changes nothing; otherwise it removes
\* exactly that pair, returns NO_ERROR and changes nothing else.
C8_EndRegistrationUnknown ==
    [][lastCall'.op = "endRegistration" =>
          \A l \in Listeners : \A ids \in ClientIds[l] :
              endRegistration(l, ids) =>
                  LET lc == ListenerCallbacks(l, ids)
                  IN  /\ (lastCall'.ret = BAD_VALUE) <=> (lc \notin mRegisteringTransactions)
                      /\ (lastCall'.ret = NO_ERROR) <=> (lc \in mRegisteringTransactions)
                      /\ lc \notin mRegisteringTransactions
                             => UNCHANGED <<program, nextSeq, delivered>>
                      /\ lc \in mRegisteringTransactions
                             => /\ mRegisteringTransactions' = mRegisteringTransactions \ {lc}
                                /\ UNCHANGED <<mCompletedTransactions, mPendingTransactions,
                                               mPresentFence, alive, deathLinks>>
      ]_vars

\* C8 witness: endRegistration failed for a listener whose transaction is
\* in the ledger: the registration had been ended before.
C8_Witness ==
    /\ lastCall.op = "endRegistration"
    /\ lastCall.ret = BAD_VALUE
    /\ mRegisteringTransactions = {}
    /\ dequeOf("L1") # <<>>
    /\ dequeOf("L2") = <<>>

\* what the invoker holds for one listener: its deque, without the history
\* fields, and its pending counts
ledgerOf(completed, pending, listener) ==
    <<IF listener \in DOMAIN completed
      THEN [i \in 1..Len(completed[listener]) |->
               <<completed[listener][i].callbackIds, completed[listener][i].latchTime>>]
      ELSE <<>>,
      IF listener \in DOMAIN pending THEN pending[listener] ELSE EmptyMap>>

without(handles, i) ==
    SubSeq(handles, 1, i - 1) \o SubSeq(handles, i + 1, Len(handles))

\* C9: when a call fails with BAD_VALUE (UnknownTransaction) on a handle of
\* one listener, every other listener's deque and pending counts end up as
\* if that handle had not been part of the call.
C9_FailingHandleLeavesOthersAsIfAbsent ==
    [][(lastCall'.op = HandleCall /\ lastCall'.ret = BAD_VALUE) =>
          /\ \A h \in Handles :
                 (registerPendingCallbackHandle(h) \/ registerUnpresentedCallbackHandle(h))
                     => \A l \in Listeners \ {h.listener} :
                            ledgerOf(mCompletedTransactions', mPendingTransactions', l)
                                = ledgerOf(mCompletedTransactions, mPendingTransactions, l)
          /\ \A hs \in Batches : \A onCommit \in BOOLEAN :
                 finalizeBatch(hs, onCommit) =>
                     LET st == [completed |-> mCompletedTransactions,
                                pending |-> mPendingTransactions]
                         done == finalizeHandles(st, hs, 1, onCommit, <<>>)
                         asIf == finalizeHandles(st, without(hs, done.failedAt), 1,
                                                 onCommit, <<>>)
                     IN  \A l \in Listeners \ {hs[done.failedAt].listener} :
                             ledgerOf(mCompletedTransactions', mPendingTransactions', l)
                                 = ledgerOf(asIf.completed, asIf.pending, l)
      ]_vars

\* C10: when startRegistration fails because linkToDeath failed, the pair
\* is not in the registration set afterwards, the listener has no ledger
\* entry, and no other listener's state changed.
C10_LinkErrorAbandonsRegistration ==
    [][(lastCall'.op = "startRegistration" /\ lastCall'.ret # NO_ERROR) =>
          \A l \in Listeners : \A ids \in ClientIds[l] :
              startRegistration(l, ids) =>
                  /\ ListenerCallbacks(l, ids) \notin mRegisteringTransactions'
                  /\ l \notin DOMAIN mCompletedTransactions'
                  /\ \A l2 \in Listeners \ {l} :
                         ledgerOf(mCompletedTransactions', mPendingTransactions', l2)
                             = ledgerOf(mCompletedTransactions, mPendingTransactions, l2)
      ]_vars

(* ======================================================================= *)
(* SpecHistory: the methods as in Spec, called for the listener L1, with   *)
(* two more pieces of history: whether the last call logged a warning of   *)
(* finalizeCallbackHandle, and which transactions were in the ledger when  *)
(* the last two dispatches returned                                        *)
(* ======================================================================= *)
HistoryHandles == {h \in Handles : h.listener = "L1"}
\* finalize calls with no handle or one
HistoryBatches == SeqsUpTo(HistoryHandles, 1)

\* the handles of the batch the loop gets to are those up to the first
\* failing one; the pending counts handle i meets are those the handles
\* before it left
loggedWarning(handles, onCommit) ==
    LET st == [completed |-> mCompletedTransactions, pending |-> mPendingTransactions]
        done == finalizeHandles(st, handles, 1, onCommit, <<>>)
        last == IF done.failedAt = 0 THEN Len(handles) ELSE done.failedAt
    IN  \E i \in 1..last :
            /\ onCommit => containsOnCommitCallbacks(handles[i].callbackIds)
            /\ ~isPending(finalizeHandles(st, SubSeq(handles, 1, i - 1), 1, onCommit,
                                          <<>>).pending,
                          handles[i].listener, handles[i].callbackIds)

quiet == warned' = FALSE /\ UNCHANGED <<dispatched, mMutex, pc, compared>>

NextHistory ==
    \/ \E ids \in ClientIds["L1"] : startRegistration("L1", ids) /\ quiet
    \/ \E ids \in ClientIds["L1"] : endRegistration("L1", ids) /\ quiet
    \/ \E h \in HistoryHandles : registerPendingCallbackHandle(h) /\ quiet
    \/ \E hs \in HistoryBatches :
           /\ finalizePendingCallbackHandles(hs)
           /\ warned' = loggedWarning(hs, FALSE)
           /\ UNCHANGED <<dispatched, mMutex, pc, compared>>
    \/ \E hs \in HistoryBatches :
           /\ finalizeOnCommitCallbackHandles(hs)
           /\ warned' = loggedWarning(hs, TRUE)
           /\ UNCHANGED <<dispatched, mMutex, pc, compared>>
    \/ \E h \in HistoryHandles : registerUnpresentedCallbackHandle(h) /\ quiet
    \/ \E f \in Fences : addPresentFence(f) /\ quiet
    \/ \E order \in Orders(DOMAIN mCompletedTransactions) :
           /\ sendCallbacks(order)
           /\ warned' = FALSE
           /\ dispatched' = [before |-> dispatched.last, last |-> nextSeq]
           /\ UNCHANGED <<mMutex, pc, compared>>
    \/ \E l \in Mortal : listenerDies(l) /\ UNCHANGED aside

SpecHistory == Init /\ [][NextHistory]_vars

\* C11: finalizing a handle whose pair has no pending count while its
\* transaction is in the ledger returns NO_ERROR, leaves the pending counts
\* as they were (no entry is created, none is below one, the pair still
\* reads as not pending) and folds the handle's latch time into the
\* transaction findTransactionStats finds.
C11_FinalizeWithoutCountIsBenign ==
    [][lastCall'.op = HandleCall =>
          \A h \in Handles : \A onCommit \in BOOLEAN :
              (/\ onCommit => containsOnCommitCallbacks(h.callbackIds)
               /\ ~isPending(mPendingTransactions, h.listener, h.callbackIds)
               /\ findTransactionStats(mCompletedTransactions, h.listener,
                                       h.callbackIds).index # 0
               /\ finalizeBatch(<<h>>, onCommit))
                  => /\ lastCall'.ret = NO_ERROR
                     /\ mPendingTransactions' = mPendingTransactions
                     /\ ~isPending(mPendingTransactions', h.listener, h.callbackIds)
                     /\ \A l \in DOMAIN mPendingTransactions' :
                            \A ids \in DOMAIN mPendingTransactions'[l] :
                                mPendingTransactions'[l][ids] >= 1
                     /\ mCompletedTransactions'[h.listener][
                            findTransactionStats(mCompletedTransactions, h.listener,
                                                 h.callbackIds).index].latchTime
                            = h.latchTime
      ]_vars

\* C11 witness: a finalize call logged the warning and returned NO_ERROR;
\* L1's transaction is latched and L1 has no pending count.
C11_Witness ==
    /\ lastCall.op = HandleCall
    /\ lastCall.ret = NO_ERROR
    /\ warned
    /\ "L1" \notin DOMAIN mPendingTransactions
    /\ dequeOf("L1") # <<>>
    /\ dequeOf("L1")[Len(dequeOf("L1"))].latchTime >= 0

Methods ==
    {"startRegistration", "endRegistration", "registerPendingCallbackHandle",
     "finalizeOnCommitCallbackHandles", "finalizePendingCallbackHandles",
     "registerUnpresentedCallbackHandle", "addPresentFence", "sendCallbacks"}

\* the calls into another process a method body makes
BinderCalls(method) ==
    IF method = "startRegistration" THEN {"linkToDeath"}
    ELSE IF method = "sendCallbacks" THEN {"onTransactionCompleted", "unlinkToDeath"}
    ELSE {}

AtLock == "lock_guard"
InBody == "body"

at(thread, method, where) ==
    pc[thread] # Idle /\ pc[thread].method = method /\ pc[thread].at = where

inBinderCall(thread) ==
    pc[thread] # Idle /\ pc[thread].at \notin {AtLock, InBody}

\* a thread calls a method and arrives at its lock_guard
call(thread, method) ==
    /\ pc[thread] = Idle
    /\ pc' = [pc EXCEPT ![thread] = [method |-> method, at |-> AtLock]]
    /\ UNCHANGED mMutex

\* std::lock_guard lock(mMutex) returns once no other thread holds mMutex
acquire(thread) ==
    /\ pc[thread] # Idle
    /\ pc[thread].at = AtLock
    /\ mMutex = NoThread
    /\ mMutex' = thread
    /\ pc' = [pc EXCEPT ![thread].at = InBody]

\* the body makes one of its binder calls; the lock_guard is still in scope
callOut(thread, binderCall) ==
    /\ pc[thread] # Idle
    /\ pc[thread].at = InBody
    /\ binderCall \in BinderCalls(pc[thread].method)
    /\ pc' = [pc EXCEPT ![thread].at = binderCall]
    /\ UNCHANGED mMutex

\* the binder call returns; one that stalls never does
callReturns(thread) ==
    /\ inBinderCall(thread)
    /\ pc' = [pc EXCEPT ![thread].at = InBody]
    /\ UNCHANGED mMutex

\* the method returns and the lock_guard goes out of scope
return(thread) ==
    /\ pc[thread] # Idle
    /\ pc[thread].at = InBody
    /\ pc' = [pc EXCEPT ![thread] = Idle]
    /\ mMutex' = NoThread

ledger ==
    <<mRegisteringTransactions, mCompletedTransactions, mPendingTransactions,
      mPresentFence, alive, deathLinks, nextSeq, delivered, lastCall>>

\* the bodies' effect on the ledger is not followed here
elsewhere == UNCHANGED <<ledger, warned, dispatched, compared>>

NextMutex ==
    \/ \E t \in Threads : \E m \in Methods : call(t, m) /\ elsewhere
    \/ \E t \in Threads : acquire(t) /\ elsewhere
    \/ \E t \in Threads : \E m \in Methods : \E b \in BinderCalls(m) :
           callOut(t, b) /\ elsewhere
    \/ \E t \in Threads : callReturns(t) /\ elsewhere
    \/ \E t \in Threads : return(t) /\ elsewhere

SpecMutex == Init /\ [][NextMutex]_vars

\* C13: no thread is inside a call into another process (linkToDeath,
\* onTransactionCompleted, unlinkToDeath) while it holds mMutex, so a call
\* that stalls keeps no other thread waiting at its lock_guard.
C13_NoBinderCallUnderMutex ==
    \A t \in Threads :
        inBinderCall(t) =>
            /\ mMutex # t
            /\ \A u \in Threads \ {t} :
                   (pc[u] # Idle /\ pc[u].at = AtLock) => mMutex = NoThread

\* C14: a dispatch sends every live listener the longest deliverable
\* prefix of its deque, whatever the other listeners' deques look like: if
\* the first k transactions of a live listener all have a closed
\* registration, no pending count and (are commit-only or the fence is
\* set), the notification sent to that listener starts with these k and
\* none of them is left in the deque.
C14_LongestPrefixPerListener ==
    [][lastCall'.op = "sendCallbacks" =>
          \A order \in Orders(DOMAIN mCompletedTransactions) :
              sendCallbacks(order) =>
                  \A l \in DOMAIN mCompletedTransactions :
                      \A k \in 1..Len(mCompletedTransactions[l]) :
                          (/\ alive[l]
                           /\ \A j \in 1..k :
                                  LET stats == mCompletedTransactions[l][j]
                                  IN  /\ Deliverable(l, stats, mPresentFence)
                                      /\ \/ containsOnCommitCallbacks(stats.callbackIds)
                                         \/ mPresentFence # NoFence)
                              => /\ \E n \in 1..Len(lastCall'.sent) :
                                        /\ lastCall'.sent[n].listener = l
                                        /\ Len(lastCall'.sent[n].transactionStats) >= k
                                        /\ \A j \in 1..k :
                                               lastCall'.sent[n].transactionStats[j].seq
                                                   = mCompletedTransactions[l][j].seq
                                 /\ \A j \in 1..k :
                                        \/ l \notin DOMAIN mCompletedTransactions'
                                        \/ \A i \in 1..Len(mCompletedTransactions'[l]) :
                                               mCompletedTransactions'[l][i].seq
                                                   # mCompletedTransactions[l][j].seq
      ]_vars

\* C14 witness: a dispatch sent L2 its transaction while the front
\* transaction of L1, which is alive, was blocked.
C14_Witness ==
    /\ lastCall.op = "sendCallbacks"
    /\ sentTo("L2") # {}
    /\ sentTo("L1") = {}
    /\ alive["L1"]
    /\ dequeOf("L1") # <<>>
    /\ dequeOf("L2") = <<>>

\* a transaction a dispatch sent had been in the ledger when the dispatch
\* before returned: that dispatch left it blocked
leftBlocked(t) ==
    t.stats.seq <= dispatched.before[t.listener]

hasTransaction(listener, callbackIds) ==
    \E i \in 1..Len(dequeOf(listener)) :
        compareCallbackIds(dequeOf(listener)[i].callbackIds, callbackIds) = 0

\* C16: every pair in the registration set and every pair with a pending
\* count has a matching transaction in its listener's deque.
C16_TrackedPairsHaveTransaction ==
    /\ \A lc \in mRegisteringTransactions : hasTransaction(lc.listener, lc.callbackIds)
    /\ \A l \in DOMAIN mPendingTransactions :
           \A ids \in DOMAIN mPendingTransactions[l] : hasTransaction(l, ids)

\* the listeners whose notification the last dispatch dropped because they
\* were dead
droppedBy(dispatch) ==
    {dispatch.dropped[n].listener : n \in 1..Len(dispatch.dropped)}

\* C17: right after sendCallbacks dropped a dead listener, the listener has
\* no deque, no pending count and no pair in the registration set; and a
\* call for one of its old handles does not create a deque for it again.
C17_DeadListenerPurgedAtomically ==
    [][/\ lastCall'.op = "sendCallbacks" =>
              \A l \in droppedBy(lastCall') :
                  /\ l \notin DOMAIN mCompletedTransactions'
                  /\ l \notin DOMAIN mPendingTransactions'
                  /\ \A lc \in mRegisteringTransactions' : lc.listener # l
       /\ (lastCall.op = "sendCallbacks" /\ lastCall'.op = HandleCall) =>
              \A l \in droppedBy(lastCall) :
                  l \notin DOMAIN mCompletedTransactions'
      ]_vars

\* the places in the listener's deque whose ids are the given ids
placesOf(listener, callbackIds) ==
    {i \in 1..Len(dequeOf(listener)) : dequeOf(listener)[i].callbackIds = callbackIds}

\* C18: in every reachable ledger and for every handle,
\* findTransactionStats fails (index 0, BAD_VALUE) iff no transaction of
\* the handle's listener has the handle's ids and otherwise finds the last
\* such transaction of the deque; addCallbackHandle, through which every
\* finalize call and registerUnpresentedCallbackHandle fold a handle in,
\* fails in the same case and otherwise writes the handle's latch time into
\* that last transaction and into no other.
C18_FoldsIntoMostRecentMatch ==
    \A h \in Handles :
        LET places == placesOf(h.listener, h.callbackIds)
            found == findTransactionStats(mCompletedTransactions, h.listener, h.callbackIds)
            added == addCallbackHandle(mCompletedTransactions, h)
            after == added.completed[h.listener]
        IN  /\ (found.index = 0) <=> (places = {})
            /\ places # {} => (found.index \in places /\ \A j \in places : j <= found.index)
            /\ (added.err = BAD_VALUE) <=> (places = {})
            /\ (added.err = NO_ERROR) <=> (places # {})
            /\ Len(after) = Len(dequeOf(h.listener))
            /\ \A i \in 1..Len(after) :
                   after[i].latchTime =
                       IF i \in places /\ \A j \in places : j <= i
                       THEN h.latchTime
                       ELSE dequeOf(h.listener)[i].latchTime

\* C18 witness: L1 has two undelivered transactions with the same ids; a
\* handle with these ids was folded in and the later transaction is the
\* one that is latched.
C18_Witness ==
    /\ lastCall.op = HandleCall
    /\ lastCall.ret = NO_ERROR
    /\ Len(dequeOf("L1")) = 2
    /\ dequeOf("L1")[1].callbackIds = dequeOf("L1")[2].callbackIds
    /\ dequeOf("L1")[1].latchTime < 0
    /\ dequeOf("L1")[2].latchTime >= 0

(* ------------- compareCallbackIds at the width of its types ------------ *)
\* CallbackId::id is an int64_t and the result of compareCallbackIds an
\* int.  An id is written <<hi, mid, lo>> for hi * 2^32 + mid * 2^16 + lo,
\* so that every intermediate value stays within 32 bits
Limb == 65536

\* 1, 2, 2^31 + 1, 2^32 + 1 and 2^32 + 2
WideIds == {<<0, 0, 1>>, <<0, 0, 2>>, <<0, 32768, 1>>, <<1, 0, 1>>, <<1, 0, 2>>}

\* the empty vector, vectors of one id and vectors of two
WideVectors ==
    {<<>>}
    \cup {<<[id |-> a, type |-> ON_COMPLETE]>> : a \in WideIds}
    \cup {<<[id |-> a, type |-> ON_COMMIT], [id |-> <<0, 0, 2>>, type |-> ON_COMPLETE]>> :
            a \in WideIds}

\* a < b as 64-bit integers
idLess(a, b) ==
    \/ a[1] < b[1]
    \/ a[1] = b[1] /\ a[2] < b[2]
    \/ a[1] = b[1] /\ a[2] = b[2] /\ a[3] < b[3]

\* the int64_t difference a - b converted to int: its low 32 bits, read as
\* a two's complement number.  The high limbs do not reach the result
truncatedDifference(a, b) ==
    LET low == a[3] - b[3]
        borrow == IF low < 0 THEN 1 ELSE 0
        d0 == low + borrow * Limb
        d1 == (a[2] - b[2] - borrow) % Limb
    IN  IF d1 >= Limb \div 2 THEN (d1 - Limb) * Limb + d0 ELSE d1 * Limb + d0

\* compareCallbackIds for two vectors of which c2 is non-empty if c1 is
compareCallbackIdsAsInt(c1, c2) ==
    IF c1 = <<>>
    THEN (IF c2 # <<>> THEN 1 ELSE 0)
    ELSE truncatedDifference(c1[1].id, c2[1].id)

\* c2.front() of an empty vector is undefined: the call may fault, or read
\* whatever lies at the vector's begin pointer and return any difference
FrontOfEmptyOutcomes ==
    {[outcome |-> "faults", ret |-> 0]}
    \cup {[outcome |-> "returns", ret |-> r] : r \in {-1, 0, 1}}

compare(c1, c2) ==
    /\ c1 = <<>> \/ c2 # <<>>
    /\ compared' = [c1 |-> c1, c2 |-> c2, outcome |-> "returns",
                    ret |-> compareCallbackIdsAsInt(c1, c2)]

compareWithEmpty(c1) ==
    /\ c1 # <<>>
    /\ \E o \in FrontOfEmptyOutcomes :
           compared' = [c1 |-> c1, c2 |-> <<>>, outcome |-> o.outcome, ret |-> o.ret]

NextCompare ==
    \/ \E c1, c2 \in WideVectors :
           compare(c1, c2) /\ UNCHANGED <<ledger, warned, dispatched, mMutex, pc>>
    \/ \E c1 \in WideVectors :
           compareWithEmpty(c1) /\ UNCHANGED <<ledger, warned, dispatched, mMutex, pc>>

SpecCompare == Init /\ [][NextCompare]_vars

\* C19: every comparison returns; its result is 0 iff both vectors are
\* empty or both are non-empty with equal leading ids; when the leading ids
\* differ the result has the sign of their comparison as 64-bit integers;
\* when exactly one vector is empty the non-empty one compares greater in
\* either argument position.
C19_ComparisonOrdersIdVectors ==
    compared.outcome # "none" =>
        LET c1 == compared.c1
            c2 == compared.c2
            both == c1 # <<>> /\ c2 # <<>>
        IN  /\ compared.outcome = "returns"
            /\ (compared.ret = 0) <=>
                   \/ c1 = <<>> /\ c2 = <<>>
                   \/ both /\ c1[1].id = c2[1].id
            /\ both /\ idLess(c1[1].id, c2[1].id) => compared.ret < 0
            /\ both /\ idLess(c2[1].id, c1[1].id) => compared.ret > 0
            /\ c1 = <<>> /\ c2 # <<>> => compared.ret < 0
            /\ c1 # <<>> /\ c2 = <<>> => compared.ret > 0

(* ------------------------ death subscriptions -------------------------- *)
\* C20: in every reachable state a listener whose process lives holds a
\* death subscription iff it has an entry in mCompletedTransactions, and
\* it never holds more than one.
C20_DeathLinkIffLedgerEntry ==
    \A l \in Listeners :
        alive[l] =>
            /\ (deathLinks[l] > 0) <=> (l \in DOMAIN mCompletedTransactions)
            /\ deathLinks[l] <= 1

====
